---------------------------- MODULE Spec2Model ----------------------------
(***************************************************************************)
(* Subscription service: HTTP handlers -> subscriptionService ->           *)
(* subscriptionRepo -> the subscriptions table.                            *)
(*                                                                         *)
(* The table is a set of rows.  Every SQL statement is one atomic step.    *)
(* Texts (service names, MM-YYYY dates) are sequences of one-character     *)
(* strings, so that parsing and ILIKE are computed, not assumed.           *)
(* A Go pointer / SQL NULL is the empty sequence, a present value v is     *)
(* <<v>>.  The database is assumed reachable: a statement fails only on a  *)
(* constraint of the schema.                                               *)
(*                                                                         *)
(* time.Now() returns clock and the clock then advances, so a later        *)
(* reading is later; the two readings of one create are taken as one.      *)
(* uuid.New() returns nextId, an identifier no row ever had; an identifier *)
(* whose INSERT failed was shown to nobody and is handed out again.        *)
(* In Spec requests are served one at a time: a handler runs from the      *)
(* request to its response, and Respond ends the request.  In SpecConc two *)
(* connections run update and delete calls whose existence check and write *)
(* are separate steps, as they are separate statements to the database.    *)
(***************************************************************************)
EXTENDS Integers, Sequences, FiniteSets, TLC

VARIABLES
    store,     \* the rows of table subscriptions
    clock,     \* the value the next time.Now() returns
    nextId,    \* the next identifier uuid.New() returns
    deleted,   \* history: [id, at] of every DELETE request answered 200, at its clock
    resp,      \* the response of the request being answered (NoResp when idle)
    prev,      \* history: the 201 response of the request answered just before
    calls      \* per connection: the update or delete call it is in the middle of

vars == <<store, clock, nextId, deleted, resp, prev, calls>>

----------------------------------------------------------------------------
(* Bounds of the model *)

MaxIds == 2

MaxClock == 3

(* HTTP status codes used by the handlers *)

StatusOK == 200

StatusCreated == 201

StatusBadRequest == 400

StatusNotFound == 404

StatusInternalServerError == 500

(* Limits of the column types *)

VarcharLen == 255

MaxInt32 == 2147483647

----------------------------------------------------------------------------
(* Optional values *)

Nil == <<>>

Some(v) == <<v>>

IsNil(o) == Len(o) = 0

Val(o) == o[1]

----------------------------------------------------------------------------
(* Texts *)

Net == <<"N", "e", "t">>

TV == <<"T", "V">>

Empty == <<>>

T_02_2024 == <<"0", "2", "-", "2", "0", "2", "4">>

T_03_2024 == <<"0", "3", "-", "2", "0", "2", "4">>

T_05_2024 == <<"0", "5", "-", "2", "0", "2", "4">>

T_06_2024 == <<"0", "6", "-", "2", "0", "2", "4">>

T_12_2024 == <<"1", "2", "-", "2", "0", "2", "4">>

T_13_2024 == <<"1", "3", "-", "2", "0", "2", "4">>

T_2024_03 == <<"2", "0", "2", "4", "-", "0", "3">>

Digits == <<"0", "1", "2", "3", "4", "5", "6", "7", "8", "9">>

IsDigit(c) == \E i \in 1..Len(Digits) : Digits[i] = c

DigitVal(c) == (CHOOSE i \in 1..Len(Digits) : Digits[i] = c) - 1

UpperCase == <<"A", "B", "C", "D", "E", "F", "G", "H", "I", "J", "K", "L", "M",
               "N", "O", "P", "Q", "R", "S", "T", "U", "V", "W", "X", "Y", "Z">>

LowerCase == <<"a", "b", "c", "d", "e", "f", "g", "h", "i", "j", "k", "l", "m",
               "n", "o", "p", "q", "r", "s", "t", "u", "v", "w", "x", "y", "z">>

ToLower(c) ==
    IF \E i \in 1..Len(UpperCase) : UpperCase[i] = c
    THEN LowerCase[CHOOSE i \in 1..Len(UpperCase) : UpperCase[i] = c]
    ELSE c

----------------------------------------------------------------------------
(* time.Parse("01-2006", text): two digits of month, "-", four digits of   *)
(* year, nothing else; the month must be 1..12.  The result is the first   *)
(* day of that month, kept as [year, month].                               *)

timeParse(text) ==
    IF /\ Len(text) = 7
       /\ IsDigit(text[1]) /\ IsDigit(text[2])
       /\ text[3] = "-"
       /\ IsDigit(text[4]) /\ IsDigit(text[5]) /\ IsDigit(text[6]) /\ IsDigit(text[7])
       /\ 10 * DigitVal(text[1]) + DigitVal(text[2]) \in 1..12
    THEN [ok |-> TRUE,
          date |-> [year |-> 1000 * DigitVal(text[4]) + 100 * DigitVal(text[5])
                             + 10 * DigitVal(text[6]) + DigitVal(text[7]),
                    month |-> 10 * DigitVal(text[1]) + DigitVal(text[2])]]
    ELSE [ok |-> FALSE, date |-> [year |-> 0, month |-> 0]]

(* t.AddDate(0, 1, 0) of a first-of-month date *)
AddMonth(d) ==
    IF d.month = 12 THEN [year |-> d.year + 1, month |-> 1]
    ELSE [year |-> d.year, month |-> d.month + 1]

(* the order of DATE values *)
DateLess(a, b) == a.year < b.year \/ (a.year = b.year /\ a.month < b.month)

DateGeq(a, b) == ~DateLess(a, b)

----------------------------------------------------------------------------
(* service_name ILIKE pattern: "%" matches any run of characters, "_" any  *)
(* one character, a backslash takes the next character literally, every    *)
(* other character matches itself without regard to case.                  *)

RECURSIVE LikeMatch(_, _)
LikeMatch(p, s) ==
    IF Len(p) = 0 THEN Len(s) = 0
    ELSE IF Head(p) = "%"
         THEN LikeMatch(Tail(p), s) \/ (Len(s) > 0 /\ LikeMatch(p, Tail(s)))
    ELSE IF Head(p) = "_"
         THEN Len(s) > 0 /\ LikeMatch(Tail(p), Tail(s))
    ELSE IF Head(p) = "\\"
         THEN /\ Len(p) > 1 /\ Len(s) > 0
              /\ ToLower(p[2]) = ToLower(Head(s))
              /\ LikeMatch(Tail(Tail(p)), Tail(s))
    ELSE /\ Len(s) > 0
         /\ ToLower(Head(p)) = ToLower(Head(s))
         /\ LikeMatch(Tail(p), Tail(s))

ILike(s, pattern) == LikeMatch(pattern, s)

(* "%" + name + "%" *)
WrapPercent(name) == <<"%">> \o name \o <<"%">>

----------------------------------------------------------------------------
(* Error causes, as errors.Cause(err).Error() shows them to the handlers *)

NoErr == ""

ErrNotFound == "subscription not found"

ErrParse == "parsing time: cannot parse"

ErrConstraint == "pq: violates constraint"

----------------------------------------------------------------------------
(* The table: CREATE TABLE subscriptions *)

(* faulty variant: the CHECK written price >= 0 *)
RowOkNonNegative(r) ==
    /\ r.Price >= 0
    /\ r.Price <= MaxInt32
    /\ Len(r.ServiceName) <= VarcharLen

(* price INTEGER CHECK (price > 0), service_name VARCHAR(255) *)
RowOk(r) ==
    /\ r.Price > 0
    /\ r.Price <= MaxInt32
    /\ Len(r.ServiceName) <= VarcharLen

(* id UUID PRIMARY KEY *)
KeyFree(table, id) == \A r \in table : r.ID # id

Ids(table) == {r.ID : r \in table}

RowOf(table, id) == CHOOSE r \in table : r.ID = id

RECURSIVE SumPrice(_)
SumPrice(rows) ==
    IF rows = {} THEN 0
    ELSE LET r == CHOOSE x \in rows : TRUE
         IN r.Price + SumPrice(rows \ {r})

----------------------------------------------------------------------------
(* subscriptionRepo *)

(* faulty variant: the INSERT reports success and stores nothing *)
repoCreateDropsRow(table, sub) ==
    [err |-> NoErr, table |-> table, exec |-> TRUE]

(* INSERT INTO subscriptions ... *)
repoCreate(table, sub) ==
    IF RowOk(sub) /\ KeyFree(table, sub.ID)
    THEN [err |-> NoErr, table |-> table \cup {sub}, exec |-> TRUE]
    ELSE [err |-> ErrConstraint, table |-> table, exec |-> TRUE]

(* SELECT ... WHERE id = $1; sql.ErrNoRows becomes (nil, nil) *)
repoGetByID(table, id) ==
    IF \E r \in table : r.ID = id THEN Some(RowOf(table, id)) ELSE Nil

(* faulty variant: an empty endDate is taken as an absent one *)
AssignEmptyIgnored(r, req, startDate, endDate, now) ==
    [r EXCEPT
       !.ServiceName = IF IsNil(req.ServiceName) THEN @ ELSE Val(req.ServiceName),
       !.Price = IF IsNil(req.Price) THEN @ ELSE Val(req.Price),
       !.StartDate = IF IsNil(req.StartDate) THEN @ ELSE startDate,
       !.EndDate = IF IsNil(req.EndDate) \/ Val(req.EndDate) = Empty THEN @
                   ELSE Some(endDate),
       !.UpdatedAt = now]

(* faulty variant: updated_at is set only when a field is supplied *)
AssignStaleUpdatedAt(r, req, startDate, endDate, now) ==
    [r EXCEPT
       !.ServiceName = IF IsNil(req.ServiceName) THEN @ ELSE Val(req.ServiceName),
       !.Price = IF IsNil(req.Price) THEN @ ELSE Val(req.Price),
       !.StartDate = IF IsNil(req.StartDate) THEN @ ELSE startDate,
       !.EndDate = IF IsNil(req.EndDate) THEN @
                   ELSE IF Val(req.EndDate) = Empty THEN Nil
                   ELSE Some(endDate),
       !.UpdatedAt = IF /\ IsNil(req.ServiceName) /\ IsNil(req.Price)
                        /\ IsNil(req.StartDate) /\ IsNil(req.EndDate)
                     THEN @ ELSE now]

(* faulty variant: the whole row is replaced, an absent end_date becomes NULL *)
AssignAbsentEndDateNull(r, req, startDate, endDate, now) ==
    [r EXCEPT
       !.ServiceName = IF IsNil(req.ServiceName) THEN @ ELSE Val(req.ServiceName),
       !.Price = IF IsNil(req.Price) THEN @ ELSE Val(req.Price),
       !.StartDate = IF IsNil(req.StartDate) THEN @ ELSE startDate,
       !.EndDate = IF IsNil(req.EndDate) THEN Nil
                   ELSE IF Val(req.EndDate) = Empty THEN Nil
                   ELSE Some(endDate),
       !.UpdatedAt = now]

(* the SET list built from the fields of the request that are present *)
Assign(r, req, startDate, endDate, now) ==
    [r EXCEPT
       !.ServiceName = IF IsNil(req.ServiceName) THEN @ ELSE Val(req.ServiceName),
       !.Price = IF IsNil(req.Price) THEN @ ELSE Val(req.Price),
       !.StartDate = IF IsNil(req.StartDate) THEN @ ELSE startDate,
       !.EndDate = IF IsNil(req.EndDate) THEN @
                   ELSE IF Val(req.EndDate) = Empty THEN Nil
                   ELSE Some(endDate),
       !.UpdatedAt = now]

(* faulty variant: an UPDATE that matches no row is reported as not found *)
repoUpdateChecksRows(table, id, req, now) ==
    LET startP == IF IsNil(req.StartDate) THEN timeParse(Empty)
                  ELSE timeParse(Val(req.StartDate))
        endP == IF IsNil(req.EndDate) THEN timeParse(Empty)
                ELSE timeParse(Val(req.EndDate))
        new(r) == Assign(r, req, startP.date, endP.date, now)
    IN  IF ~IsNil(req.StartDate) /\ ~startP.ok
        THEN [err |-> ErrParse, table |-> table, exec |-> FALSE, now |-> FALSE]
        ELSE IF ~IsNil(req.EndDate) /\ Val(req.EndDate) # Empty /\ ~endP.ok
        THEN [err |-> ErrParse, table |-> table, exec |-> FALSE, now |-> FALSE]
        ELSE IF \A r \in table : r.ID # id
        THEN [err |-> ErrNotFound, table |-> table, exec |-> TRUE, now |-> TRUE]
        ELSE IF \A r \in table : r.ID = id => RowOk(new(r))
        THEN [err |-> NoErr,
              table |-> {IF r.ID = id THEN new(r) ELSE r : r \in table},
              exec |-> TRUE, now |-> TRUE]
        ELSE [err |-> ErrConstraint, table |-> table, exec |-> TRUE, now |-> TRUE]

(* UPDATE subscriptions SET ..., updated_at = $n WHERE id = $m *)
repoUpdate(table, id, req, now) ==
    LET startP == IF IsNil(req.StartDate) THEN timeParse(Empty)
                  ELSE timeParse(Val(req.StartDate))
        endP == IF IsNil(req.EndDate) THEN timeParse(Empty)
                ELSE timeParse(Val(req.EndDate))
        new(r) == Assign(r, req, startP.date, endP.date, now)
    IN  IF ~IsNil(req.StartDate) /\ ~startP.ok
        THEN [err |-> ErrParse, table |-> table, exec |-> FALSE, now |-> FALSE]
        ELSE IF ~IsNil(req.EndDate) /\ Val(req.EndDate) # Empty /\ ~endP.ok
        THEN [err |-> ErrParse, table |-> table, exec |-> FALSE, now |-> FALSE]
        ELSE IF \A r \in table : r.ID = id => RowOk(new(r))
        THEN [err |-> NoErr,
              table |-> {IF r.ID = id THEN new(r) ELSE r : r \in table},
              exec |-> TRUE, now |-> TRUE]
        ELSE [err |-> ErrConstraint, table |-> table, exec |-> TRUE, now |-> TRUE]

(* faulty variant: the DELETE removes nothing *)
repoDeleteKeepsRow(table, id) ==
    [err |-> NoErr, table |-> table, exec |-> TRUE]

(* DELETE FROM subscriptions WHERE id = $1 *)
repoDelete(table, id) ==
    [err |-> NoErr, table |-> {r \in table : r.ID # id}, exec |-> TRUE]

(* the WHERE clauses List and GetTotalCost share *)
MatchUser(r, filter) ==
    IsNil(filter.UserID) \/ r.UserID = Val(filter.UserID)

MatchName(r, filter) ==
    IsNil(filter.ServiceName)
    \/ ILike(r.ServiceName, WrapPercent(Val(filter.ServiceName)))

(* the sequences that hold each row of rows once, created_at descending *)
OrderByCreatedAtDesc(rows) ==
    {s \in [1..Cardinality(rows) -> rows] :
        /\ \A i, j \in 1..Cardinality(rows) : i # j => s[i] # s[j]
        /\ \A i, j \in 1..Cardinality(rows) : i < j => s[i].CreatedAt >= s[j].CreatedAt}

(* SELECT ... WHERE 1=1 [AND user_id = ..] [AND service_name ILIKE ..] *)
repoListRows(table, filter) ==
    {r \in table : MatchUser(r, filter) /\ MatchName(r, filter)}

(* SELECT COALESCE(SUM(price), 0) ... *)
repoGetTotalCost(table, filter) ==
    LET startP == IF IsNil(filter.StartDate) THEN timeParse(Empty)
                  ELSE timeParse(Val(filter.StartDate))
        endP == IF IsNil(filter.EndDate) THEN timeParse(Empty)
                ELSE timeParse(Val(filter.EndDate))
        nextMonth == AddMonth(endP.date)
        match(r) ==
            /\ MatchUser(r, filter)
            /\ MatchName(r, filter)
            /\ IsNil(filter.StartDate) \/ DateGeq(r.StartDate, startP.date)
            /\ \/ IsNil(filter.EndDate)
               \/ DateLess(r.StartDate, nextMonth)
               \/ IsNil(r.EndDate)
               \/ DateLess(Val(r.EndDate), nextMonth)
    IN  IF ~IsNil(filter.StartDate) /\ ~startP.ok
        THEN [err |-> ErrParse, total |-> 0]
        ELSE IF ~IsNil(filter.EndDate) /\ ~endP.ok
        THEN [err |-> ErrParse, total |-> 0]
        ELSE [err |-> NoErr, total |-> SumPrice({r \in table : match(r)})]

----------------------------------------------------------------------------
(* subscriptionService *)

NoSub == [ID |-> 0, ServiceName |-> Empty, Price |-> 0, UserID |-> "",
          StartDate |-> [year |-> 0, month |-> 0], EndDate |-> Nil,
          CreatedAt |-> 0, UpdatedAt |-> 0]

svcCreateSubscription(table, req, id, now) ==
    LET startP == timeParse(req.StartDate)
        endP == IF IsNil(req.EndDate) THEN timeParse(Empty)
                ELSE timeParse(Val(req.EndDate))
        subscription == [ID |-> id,
                         ServiceName |-> req.ServiceName,
                         Price |-> req.Price,
                         UserID |-> req.UserID,
                         StartDate |-> startP.date,
                         EndDate |-> IF IsNil(req.EndDate) THEN Nil ELSE Some(endP.date),
                         CreatedAt |-> now,
                         UpdatedAt |-> now]
        r == repoCreate(table, subscription)
    IN  IF ~startP.ok
        THEN [err |-> ErrParse, sub |-> NoSub, table |-> table, exec |-> FALSE, now |-> FALSE]
        ELSE IF ~IsNil(req.EndDate) /\ ~endP.ok
        THEN [err |-> ErrParse, sub |-> NoSub, table |-> table, exec |-> FALSE, now |-> FALSE]
        ELSE IF r.err # NoErr
        THEN [err |-> r.err, sub |-> NoSub, table |-> table, exec |-> r.exec, now |-> TRUE]
        ELSE [err |-> NoErr, sub |-> subscription, table |-> r.table, exec |-> r.exec,
              now |-> TRUE]

svcGetSubscription(table, id) ==
    LET subscription == repoGetByID(table, id)
    IN  IF IsNil(subscription)
        THEN [err |-> ErrNotFound, sub |-> NoSub]
        ELSE [err |-> NoErr, sub |-> Val(subscription)]

(* faulty variant: the update is sent without the existence check *)
svcUpdateUnchecked(table, id, req, now) ==
    repoUpdate(table, id, req, now)

svcUpdateSubscription(table, id, req, now) ==
    IF svcGetSubscription(table, id).err # NoErr
    THEN [err |-> svcGetSubscription(table, id).err, table |-> table,
          exec |-> FALSE, now |-> FALSE]
    ELSE repoUpdate(table, id, req, now)

svcDeleteSubscription(table, id) ==
    IF svcGetSubscription(table, id).err # NoErr
    THEN [err |-> svcGetSubscription(table, id).err, table |-> table, exec |-> FALSE]
    ELSE repoDelete(table, id)

----------------------------------------------------------------------------
(* What the clients send *)

IDs == 1..MaxIds

(* the {id} path parameter: the text of a uuid, or text that is none *)
PathParams == {<<"uuid", i>> : i \in IDs} \cup {<<"junk">>}

(* uuid.Parse *)
uuidParse(text) ==
    IF Len(text) = 2 /\ text[1] = "uuid" THEN [ok |-> TRUE, id |-> text[2]]
    ELSE [ok |-> FALSE, id |-> 0]

CreateA == [ServiceName |-> Net, Price |-> 2, UserID |-> "u1",
            StartDate |-> T_02_2024, EndDate |-> Nil]

CreateB == [ServiceName |-> TV, Price |-> 3, UserID |-> "u2",
            StartDate |-> T_06_2024, EndDate |-> Some(T_05_2024)]

CreateRequests ==
    {CreateA, CreateB}
    \cup {[CreateA EXCEPT !.Price = p] : p \in {0, -1}}
    \cup {[CreateA EXCEPT !.StartDate = t] : t \in {T_13_2024, T_2024_03, Empty}}
    \cup {[CreateB EXCEPT !.EndDate = Some(t)] : t \in {T_13_2024, Empty}}
    \cup {[CreateB EXCEPT !.Price = 0, !.StartDate = T_13_2024]}

(* every subset of the four fields, endDate also as the empty text *)
ValidUpdates ==
    [ServiceName : {Nil, Some(TV)},
     Price : {Nil, Some(3)},
     StartDate : {Nil, Some(T_06_2024)},
     EndDate : {Nil, Some(Empty), Some(T_05_2024)}]

NoFields == [ServiceName |-> Nil, Price |-> Nil, StartDate |-> Nil, EndDate |-> Nil]

AllFields == [ServiceName |-> Some(TV), Price |-> Some(3),
              StartDate |-> Some(T_06_2024), EndDate |-> Some(T_05_2024)]

InvalidUpdates ==
    {[NoFields EXCEPT !.Price = Some(0)],
     [AllFields EXCEPT !.Price = Some(-1)],
     [NoFields EXCEPT !.StartDate = Some(T_13_2024)],
     [AllFields EXCEPT !.StartDate = Some(Empty)],
     [NoFields EXCEPT !.EndDate = Some(T_2024_03)],
     [AllFields EXCEPT !.EndDate = Some(T_13_2024)],
     [AllFields EXCEPT !.Price = Some(0), !.StartDate = Some(T_13_2024)]}

UpdateRequests == ValidUpdates \cup InvalidUpdates

(* query parameters; the empty text is a parameter not given *)
UserQueries == {Empty, <<"uuid", "u1">>, <<"junk">>}

NameQueries == {Empty, <<"e", "T">>, <<"_", "v">>}

StartQueries == {Empty, T_03_2024, T_13_2024}

EndQueries == {Empty, T_05_2024, T_12_2024, T_2024_03}

ListQueries ==
    [user_id : UserQueries, service_name : NameQueries,
     start_date : {Empty}, end_date : {Empty}]

TotalCostQueries ==
    [user_id : UserQueries, service_name : NameQueries,
     start_date : StartQueries, end_date : EndQueries]

(* models.SubscriptionFilter as the List and GetTotalCost handlers fill it *)
FilterOf(q) ==
    [UserID |-> IF q.user_id = Empty THEN Nil ELSE Some(uuidParse(q.user_id).id),
     ServiceName |-> IF q.service_name = Empty THEN Nil ELSE Some(q.service_name),
     StartDate |-> IF q.start_date = Empty THEN Nil ELSE Some(q.start_date),
     EndDate |-> IF q.end_date = Empty THEN Nil ELSE Some(q.end_date)]

(* a request body: JSON that binds to the request type, or anything else *)
CreateBodies == {<<"json", r>> : r \in CreateRequests} \cup {<<"junk">>}

UpdateBodies == {<<"json", r>> : r \in UpdateRequests} \cup {<<"junk">>}

(* c.ShouldBindJSON(&req) *)
bindJSON(body) ==
    IF body[1] = "json" THEN [ok |-> TRUE, req |-> body[2]]
    ELSE [ok |-> FALSE, req |-> Nil]

----------------------------------------------------------------------------
(* Responses *)

NoResp == [op |-> "none", path |-> Nil, bound |-> FALSE, req |-> Nil,
           status |-> 0, err |-> NoErr, body |-> Nil, exec |-> FALSE]

Response(op, path, bound, req, status, err, body, exec) ==
    [op |-> op, path |-> path, bound |-> bound, req |-> req,
     status |-> status, err |-> err, body |-> body, exec |-> exec]

(* the status the Get, Update and Delete handlers give an error of the service *)
ErrStatus(err) ==
    IF err = ErrNotFound THEN StatusNotFound ELSE StatusInternalServerError

----------------------------------------------------------------------------
(* SubscriptionHandler: one action per handler, from the request to c.JSON *)

CreateSubscription ==
    /\ resp = NoResp
    /\ clock < MaxClock
    /\ nextId <= MaxIds
    /\ \E body \in CreateBodies :
         LET b == bindJSON(body)
             r == svcCreateSubscription(store, b.req, nextId, clock)
         IN  IF ~b.ok
             THEN /\ resp' = Response("create", Nil, FALSE, Nil, StatusBadRequest,
                                      NoErr, Nil, FALSE)
                  /\ UNCHANGED <<store, clock, nextId>>
             ELSE /\ store' = r.table
                  /\ clock' = IF r.now THEN clock + 1 ELSE clock
                  /\ nextId' = IF r.err = NoErr THEN nextId + 1 ELSE nextId
                  /\ resp' = IF r.err # NoErr
                             THEN Response("create", Nil, TRUE, b.req,
                                           StatusInternalServerError, r.err, Nil, r.exec)
                             ELSE Response("create", Nil, TRUE, b.req,
                                           StatusCreated, NoErr, r.sub, r.exec)
    /\ UNCHANGED <<deleted, prev, calls>>

GetSubscription ==
    /\ resp = NoResp
    /\ \E path \in PathParams :
         LET p == uuidParse(path)
             r == svcGetSubscription(store, p.id)
         IN  resp' = IF ~p.ok
                     THEN Response("get", path, FALSE, Nil, StatusBadRequest,
                                   NoErr, Nil, FALSE)
                     ELSE IF r.err # NoErr
                     THEN Response("get", path, FALSE, Nil, ErrStatus(r.err),
                                   r.err, Nil, FALSE)
                     ELSE Response("get", path, FALSE, Nil, StatusOK, NoErr, r.sub, FALSE)
    /\ UNCHANGED <<store, clock, nextId, deleted, prev, calls>>

UpdateSubscription ==
    /\ resp = NoResp
    /\ clock < MaxClock
    /\ \E path \in PathParams, body \in UpdateBodies :
         LET p == uuidParse(path)
             b == bindJSON(body)
             r == svcUpdateSubscription(store, p.id, b.req, clock)
         IN  IF ~p.ok
             THEN /\ resp' = Response("update", path, FALSE, Nil, StatusBadRequest,
                                      NoErr, Nil, FALSE)
                  /\ UNCHANGED <<store, clock>>
             ELSE IF ~b.ok
             THEN /\ resp' = Response("update", path, FALSE, Nil, StatusBadRequest,
                                      NoErr, Nil, FALSE)
                  /\ UNCHANGED <<store, clock>>
             ELSE /\ store' = r.table
                  /\ clock' = IF r.now THEN clock + 1 ELSE clock
                  /\ resp' = Response("update", path, TRUE, b.req,
                                      IF r.err # NoErr THEN ErrStatus(r.err) ELSE StatusOK,
                                      r.err, Nil, r.exec)
    /\ UNCHANGED <<nextId, deleted, prev, calls>>

DeleteSubscription ==
    /\ resp = NoResp
    /\ \E path \in PathParams :
         LET p == uuidParse(path)
             r == svcDeleteSubscription(store, p.id)
         IN  IF ~p.ok
             THEN /\ resp' = Response("delete", path, FALSE, Nil, StatusBadRequest,
                                      NoErr, Nil, FALSE)
                  /\ UNCHANGED <<store, deleted>>
             ELSE /\ store' = r.table
                  /\ deleted' = IF r.err = NoErr
                                THEN deleted \cup {[id |-> p.id, at |-> clock]}
                                ELSE deleted
                  /\ resp' = Response("delete", path, FALSE, Nil,
                                      IF r.err # NoErr THEN ErrStatus(r.err) ELSE StatusOK,
                                      r.err, Nil, r.exec)
    /\ UNCHANGED <<clock, nextId, prev, calls>>

ListSubscriptions ==
    /\ resp = NoResp
    /\ \E q \in ListQueries :
         LET filter == FilterOf(q)
             rows == repoListRows(store, filter)
         IN  IF q.user_id # Empty /\ ~uuidParse(q.user_id).ok
             THEN resp' = Response("list", Nil, FALSE, Nil, StatusBadRequest,
                                   NoErr, Nil, FALSE)
             ELSE \E subscriptions \in OrderByCreatedAtDesc(rows) :
                    resp' = Response("list", Nil, TRUE, filter, StatusOK,
                                     NoErr, subscriptions, FALSE)
    /\ UNCHANGED <<store, clock, nextId, deleted, prev, calls>>

GetTotalCost ==
    /\ resp = NoResp
    /\ \E q \in TotalCostQueries :
         LET filter == FilterOf(q)
             r == repoGetTotalCost(store, filter)
         IN  resp' = IF q.user_id # Empty /\ ~uuidParse(q.user_id).ok
                     THEN Response("total", Nil, FALSE, Nil, StatusBadRequest,
                                   NoErr, Nil, FALSE)
                     ELSE IF r.err # NoErr
                     THEN Response("total", Nil, TRUE, filter,
                                   StatusInternalServerError, r.err, Nil, FALSE)
                     ELSE Response("total", Nil, TRUE, filter, StatusOK,
                                   NoErr, r.total, FALSE)
    /\ UNCHANGED <<store, clock, nextId, deleted, prev, calls>>

(* the response is written and the request ends; the server takes the next *)
Respond ==
    /\ resp # NoResp
    /\ prev' = IF resp.op = "create" /\ resp.status = StatusCreated THEN resp ELSE NoResp
    /\ resp' = NoResp
    /\ UNCHANGED <<store, clock, nextId, deleted, calls>>

----------------------------------------------------------------------------
(* Concurrent requests.  gin serves every connection in its own goroutine; *)
(* the service holds no lock and opens no transaction, so between the      *)
(* SELECT of GetSubscription and the UPDATE or DELETE that follows it the  *)
(* statements of another request may run.  Each statement is atomic.       *)

Conns == {"c1", "c2"}

(* the update requests the two connections send: name and price, the two   *)
(* dates, an emptied end date, a price the schema refuses, a start date    *)
(* that does not parse                                                     *)
ConcUpdateRequests ==
    {[NoFields EXCEPT !.ServiceName = Some(TV), !.Price = Some(3)],
     [NoFields EXCEPT !.StartDate = Some(T_06_2024), !.EndDate = Some(T_05_2024)],
     [NoFields EXCEPT !.EndDate = Some(Empty)],
     [NoFields EXCEPT !.Price = Some(0)],
     [NoFields EXCEPT !.StartDate = Some(T_13_2024)]}

ConcUpdateBodies == {<<"json", r>> : r \in ConcUpdateRequests} \cup {<<"junk">>}

(* a connection with no call in progress *)
(* raced is history: a statement of the other connection wrote the id      *)
(* after this call's existence check                                       *)
NoCall == [pc |-> "idle", op |-> "none", id |-> 0, req |-> Nil, status |-> 0,
           err |-> NoErr, exec |-> FALSE, raced |-> FALSE, wroteAt |-> 0]

(* a call answered before any write: bad path, bad body, or id not found *)
Refused(op, status, err) ==
    [pc |-> "done", op |-> op, id |-> 0, req |-> Nil, status |-> status,
     err |-> err, exec |-> FALSE, raced |-> FALSE, wroteAt |-> 0]

(* a call whose existence check found the row; the write is still to come *)
Checked(op, id, req) ==
    [pc |-> "checked", op |-> op, id |-> id, req |-> req, status |-> 0,
     err |-> NoErr, exec |-> FALSE, raced |-> FALSE, wroteAt |-> 0]

(* a call whose write returned r and whose response is written *)
Written(call, r, now) ==
    [call EXCEPT !.pc = "done",
                 !.status = IF r.err # NoErr THEN ErrStatus(r.err) ELSE StatusOK,
                 !.err = r.err,
                 !.exec = r.exec,
                 !.wroteAt = now]

(* the other connection's call, after a statement on id was executed *)
Overtaken(call, id, exec) ==
    IF call.pc = "checked" /\ call.id = id /\ exec
    THEN [call EXCEPT !.raced = TRUE]
    ELSE call

(* UpdateSubscription up to the return of s.GetSubscription *)
UpdateCheck(c) ==
    /\ calls[c].pc = "idle"
    /\ \E path \in PathParams, body \in ConcUpdateBodies :
         LET p == uuidParse(path)
             b == bindJSON(body)
             g == svcGetSubscription(store, p.id)
         IN  calls' = [calls EXCEPT ![c] =
                 IF ~p.ok THEN Refused("update", StatusBadRequest, NoErr)
                 ELSE IF ~b.ok THEN Refused("update", StatusBadRequest, NoErr)
                 ELSE IF g.err # NoErr
                 THEN Refused("update", ErrStatus(g.err), g.err)
                 ELSE Checked("update", p.id, b.req)]
    /\ UNCHANGED <<store, clock, nextId, deleted, resp, prev>>

(* UpdateSubscription from s.repo.Update to c.JSON *)
UpdateWrite(c) ==
    /\ calls[c].pc = "checked"
    /\ calls[c].op = "update"
    /\ clock < MaxClock
    /\ LET r == repoUpdate(store, calls[c].id, calls[c].req, clock)
       IN  /\ store' = r.table
           /\ clock' = IF r.now THEN clock + 1 ELSE clock
           /\ calls' = [d \in Conns |->
                           IF d = c THEN Written(calls[c], r, clock)
                           ELSE Overtaken(calls[d], calls[c].id, r.exec)]
    /\ UNCHANGED <<nextId, deleted, resp, prev>>

(* DeleteSubscription up to the return of s.GetSubscription *)
DeleteCheck(c) ==
    /\ calls[c].pc = "idle"
    /\ \E path \in PathParams :
         LET p == uuidParse(path)
             g == svcGetSubscription(store, p.id)
         IN  calls' = [calls EXCEPT ![c] =
                 IF ~p.ok THEN Refused("delete", StatusBadRequest, NoErr)
                 ELSE IF g.err # NoErr
                 THEN Refused("delete", ErrStatus(g.err), g.err)
                 ELSE Checked("delete", p.id, Nil)]
    /\ UNCHANGED <<store, clock, nextId, deleted, resp, prev>>

(* DeleteSubscription from s.repo.Delete to c.JSON *)
DeleteWrite(c) ==
    /\ calls[c].pc = "checked"
    /\ calls[c].op = "delete"
    /\ LET r == repoDelete(store, calls[c].id)
       IN  /\ store' = r.table
           /\ deleted' = IF r.err = NoErr
                         THEN deleted \cup {[id |-> calls[c].id, at |-> clock]}
                         ELSE deleted
           /\ calls' = [d \in Conns |->
                           IF d = c THEN Written(calls[c], r, clock)
                           ELSE Overtaken(calls[d], calls[c].id, r.exec)]
    /\ UNCHANGED <<clock, nextId, resp, prev>>

(* CreateSubscription of a third client, answered 201: one INSERT, so one  *)
(* step among the steps of the two connections; its response goes to that  *)
(* client and is not kept                                                  *)
CreateAccepted ==
    /\ clock < MaxClock
    /\ nextId <= MaxIds
    /\ \E req \in {CreateA, CreateB} :
         LET r == svcCreateSubscription(store, req, nextId, clock)
         IN  /\ r.err = NoErr
             /\ store' = r.table
             /\ clock' = clock + 1
             /\ nextId' = nextId + 1
    /\ UNCHANGED <<deleted, resp, prev, calls>>

(* the handler has returned; the connection takes its next request *)
Finish(c) ==
    /\ calls[c].pc = "done"
    /\ calls' = [calls EXCEPT ![c] = NoCall]
    /\ UNCHANGED <<store, clock, nextId, deleted, resp, prev>>

----------------------------------------------------------------------------

Init ==
    /\ store = {}
    /\ clock = 0
    /\ nextId = 1
    /\ deleted = {}
    /\ resp = NoResp
    /\ prev = NoResp
    /\ calls = [c \in Conns |-> NoCall]

Next ==
    \/ CreateSubscription
    \/ GetSubscription
    \/ UpdateSubscription
    \/ DeleteSubscription
    \/ ListSubscriptions
    \/ GetTotalCost
    \/ Respond

Spec == Init /\ [][Next]_vars

(* creates are single statements and interleave with the steps of the      *)
(* update and delete calls of the two connections                          *)
ConcNext ==
    \/ CreateAccepted
    \/ \E c \in Conns : UpdateCheck(c)
    \/ \E c \in Conns : UpdateWrite(c)
    \/ \E c \in Conns : DeleteCheck(c)
    \/ \E c \in Conns : DeleteWrite(c)
    \/ \E c \in Conns : Finish(c)

SpecConc == Init /\ [][ConcNext]_vars

----------------------------------------------------------------------------
(* What the properties are stated with *)

(* the month each well-formed MM-YYYY text names *)
MonthOf(text) ==
    CASE text = T_02_2024 -> [year |-> 2024, month |-> 2]
      [] text = T_03_2024 -> [year |-> 2024, month |-> 3]
      [] text = T_05_2024 -> [year |-> 2024, month |-> 5]
      [] text = T_06_2024 -> [year |-> 2024, month |-> 6]
      [] text = T_12_2024 -> [year |-> 2024, month |-> 12]

ValidMonthTexts == {T_02_2024, T_03_2024, T_05_2024, T_06_2024, T_12_2024}

(* the first day of the month after the month d *)
MonthAfter(d) ==
    IF d.month < 12 THEN [year |-> d.year, month |-> d.month + 1]
    ELSE [year |-> d.year + 1, month |-> 1]

Before(a, b) == a.year * 12 + a.month < b.year * 12 + b.month

(* sub occurs in s, letter case ignored *)
ContainsFold(s, sub) ==
    \E i \in 0..(Len(s) - Len(sub)) :
        \A j \in 1..Len(sub) : ToLower(s[i + j]) = ToLower(sub[j])

(* the path parameter of the response names the row id *)
PathId(r) == r.path[2]

HasPathId(r) == Len(r.path) = 2

(* the date texts of an update request are all usable *)
UpdateDatesValid(req) ==
    /\ IsNil(req.StartDate) \/ Val(req.StartDate) \in ValidMonthTexts
    /\ IsNil(req.EndDate) \/ Val(req.EndDate) = Empty
                          \/ Val(req.EndDate) \in ValidMonthTexts

UpdatePriceValid(req) ==
    IsNil(req.Price) \/ (Val(req.Price) > 0 /\ Val(req.Price) <= MaxInt32)

CreateDatesValid(req) ==
    /\ req.StartDate \in ValidMonthTexts
    /\ IsNil(req.EndDate) \/ Val(req.EndDate) \in ValidMonthTexts

----------------------------------------------------------------------------
(* C1: a GET of the id a 201 create has just returned, with no other       *)
(* request in between, answers 200 with a record of that id whose price,   *)
(* serviceName and userId are those of the create request.                 *)
C1_GetAfterCreate ==
    (/\ prev.op = "create"
     /\ prev.status = StatusCreated
     /\ resp.op = "get"
     /\ resp.path = <<"uuid", prev.body.ID>>)
    => /\ resp.status = StatusOK
       /\ resp.body.ID = prev.body.ID
       /\ resp.body.Price = prev.req.Price
       /\ resp.body.ServiceName = prev.req.ServiceName
       /\ resp.body.UserID = prev.req.UserID

C1_Witness ==
    /\ prev.op = "create"
    /\ prev.status = StatusCreated
    /\ resp.op = "get"
    /\ resp.path = <<"uuid", prev.body.ID>>
    /\ resp.status = StatusOK
    /\ resp.body.Price = 3

(* C2: once a DELETE of an id has been answered 200, every later GET of    *)
(* that id is answered 404, whatever requests were served in between.      *)
C2_GetAfterDelete ==
    (/\ resp.op = "get"
     /\ HasPathId(resp)
     /\ \E d \in deleted : d.id = PathId(resp))
    => resp.status = StatusNotFound

C2_Witness ==
    /\ resp.op = "get"
    /\ HasPathId(resp)
    /\ resp.status = StatusNotFound
    /\ \E d \in deleted :
          /\ d.id = PathId(resp)
          /\ \E r \in store : r.CreatedAt >= d.at /\ r.UpdatedAt > r.CreatedAt

(* the active interval of row r meets the window of months *)
Overlaps(r, windowStart, windowEnd) ==
    /\ ~Before(windowEnd, r.StartDate)
    /\ IsNil(r.EndDate) \/ ~Before(Val(r.EndDate), windowStart)

(* C3: with both start_date and end_date given (and nothing else), the     *)
(* total is the sum of price over the rows whose active interval, from     *)
(* their startDate to their endDate or without end when that is NULL,      *)
(* overlaps the window from the start month to the end month.              *)
C3_TotalCostIsWindowOverlap ==
    (/\ resp.op = "total"
     /\ resp.bound
     /\ IsNil(resp.req.UserID) /\ IsNil(resp.req.ServiceName)
     /\ ~IsNil(resp.req.StartDate) /\ ~IsNil(resp.req.EndDate)
     /\ Val(resp.req.StartDate) \in ValidMonthTexts
     /\ Val(resp.req.EndDate) \in ValidMonthTexts)
    => /\ resp.status = StatusOK
       /\ resp.body = SumPrice({r \in store :
                          Overlaps(r, MonthOf(Val(resp.req.StartDate)),
                                      MonthOf(Val(resp.req.EndDate)))})

(* row r satisfies every field of the filter, as the properties read it *)
C4Match(r, filter) ==
    /\ IsNil(filter.UserID) \/ r.UserID = Val(filter.UserID)
    /\ IsNil(filter.ServiceName) \/ ContainsFold(r.ServiceName, Val(filter.ServiceName))
    /\ IsNil(filter.StartDate)
       \/ ~Before(r.StartDate, MonthOf(Val(filter.StartDate)))
    /\ \/ IsNil(filter.EndDate)
       \/ Before(r.StartDate, MonthAfter(MonthOf(Val(filter.EndDate))))
       \/ IsNil(r.EndDate)
       \/ Before(Val(r.EndDate), MonthAfter(MonthOf(Val(filter.EndDate))))

(* C4: the total is the sum of price over exactly the rows that satisfy    *)
(* every field given: userId equal, serviceName contained without regard   *)
(* to case, startDate not before the start month, and startDate before the *)
(* month after the end month or endDate NULL or endDate before that month. *)
C4_TotalCostIsFilteredSum ==
    (/\ resp.op = "total"
     /\ resp.bound
     /\ IsNil(resp.req.StartDate) \/ Val(resp.req.StartDate) \in ValidMonthTexts
     /\ IsNil(resp.req.EndDate) \/ Val(resp.req.EndDate) \in ValidMonthTexts)
    => /\ resp.status = StatusOK
       /\ resp.body = SumPrice({r \in store : C4Match(r, resp.req)})

(* C5: a valid update of an existing row is answered 200 and treats the     *)
(* endDate of the request three ways: the empty text leaves the stored      *)
(* endDate NULL, so that a fetch shows none; a MM-YYYY text leaves it that  *)
(* month; no endDate field leaves it as it was.                             *)
C5_EndDateThreeWays ==
    [][(/\ resp'.op = "update"
        /\ resp'.bound
        /\ HasPathId(resp')
        /\ PathId(resp') \in Ids(store)
        /\ UpdateDatesValid(resp'.req)
        /\ UpdatePriceValid(resp'.req))
       => /\ resp'.status = StatusOK
          /\ PathId(resp') \in Ids(store')
          /\ LET old == RowOf(store, PathId(resp'))
                 new == RowOf(store', PathId(resp'))
                 endDate == resp'.req.EndDate
             IN  /\ IsNil(endDate) => new.EndDate = old.EndDate
                 /\ (~IsNil(endDate) /\ Val(endDate) = Empty)
                       => /\ new.EndDate = Nil
                          /\ svcGetSubscription(store', PathId(resp')).sub.EndDate = Nil
                 /\ (~IsNil(endDate) /\ Val(endDate) # Empty)
                       => new.EndDate = Some(MonthOf(Val(endDate)))
      ]_vars

(* an end date set at creation is cleared by the first update of the row *)
C5_Witness ==
    /\ resp.op = "update"
    /\ resp.status = StatusOK
    /\ resp.req.EndDate = Some(Empty)
    /\ \E r \in store :
          /\ r.ID = PathId(resp)
          /\ r.UserID = "u2"
          /\ r.UpdatedAt = r.CreatedAt + 1
          /\ r.EndDate = Nil

(* the row an update of row old with request req at time now is to leave *)
C6Expected(old, req, now) ==
    [ID |-> old.ID,
     ServiceName |-> IF IsNil(req.ServiceName) THEN old.ServiceName
                     ELSE Val(req.ServiceName),
     Price |-> IF IsNil(req.Price) THEN old.Price ELSE Val(req.Price),
     UserID |-> old.UserID,
     StartDate |-> IF IsNil(req.StartDate) THEN old.StartDate
                   ELSE MonthOf(Val(req.StartDate)),
     EndDate |-> IF IsNil(req.EndDate) THEN old.EndDate
                 ELSE IF Val(req.EndDate) = Empty THEN Nil
                 ELSE Some(MonthOf(Val(req.EndDate))),
     CreatedAt |-> old.CreatedAt,
     UpdatedAt |-> now]

(* C6: a valid update of an existing row, whatever subset of serviceName,   *)
(* price, startDate and endDate it supplies, is answered 200; the row then  *)
(* holds the supplied values in the supplied fields, updatedAt is the time  *)
(* of the update, its id, userId, createdAt and the fields not supplied are *)
(* as before, and every other row is as before.                             *)
C6_UpdateFrame ==
    [][(/\ resp'.op = "update"
        /\ resp'.bound
        /\ HasPathId(resp')
        /\ PathId(resp') \in Ids(store)
        /\ UpdateDatesValid(resp'.req)
        /\ UpdatePriceValid(resp'.req))
       => LET old == RowOf(store, PathId(resp'))
          IN  /\ resp'.status = StatusOK
              /\ resp'.err = NoErr
              /\ store' = (store \ {old}) \cup {C6Expected(old, resp'.req, clock)}
              /\ clock >= old.UpdatedAt
      ]_vars

(* the update that supplies no field, with another row in the table *)
C6_Witness ==
    /\ resp.op = "update"
    /\ resp.status = StatusOK
    /\ resp.req = NoFields
    /\ Cardinality(store) = 2
    /\ \E r \in store : r.ID = PathId(resp) /\ r.UpdatedAt > r.CreatedAt

(* C7: a create, or an update of an existing id, whose startDate or endDate *)
(* text is not a MM-YYYY month is answered 400 and leaves the table as it   *)
(* was.                                                                     *)
C7_InvalidDateIs400 ==
    [][(\/ /\ resp'.op = "create"
           /\ resp'.bound
           /\ ~CreateDatesValid(resp'.req)
        \/ /\ resp'.op = "update"
           /\ resp'.bound
           /\ HasPathId(resp')
           /\ PathId(resp') \in Ids(store)
           /\ ~UpdateDatesValid(resp'.req))
       => /\ resp'.status = StatusBadRequest
          /\ store' = store
      ]_vars

(* C8: a get, an update or a delete of an id that has no row is answered    *)
(* 404, issues no write statement and leaves the table as it was.           *)
C8_MissingIdIs404 ==
    [][(/\ resp'.op \in {"get", "update", "delete"}
        /\ HasPathId(resp')
        /\ resp'.op = "update" => resp'.bound
        /\ PathId(resp') \notin Ids(store))
       => /\ resp'.status = StatusNotFound
          /\ resp'.err = ErrNotFound
          /\ ~resp'.exec
          /\ store' = store
      ]_vars

(* an update of a missing id that would otherwise fail in the table *)
C8_Witness ==
    /\ resp.op = "update"
    /\ resp.bound
    /\ resp.status = StatusNotFound
    /\ resp.req.Price = Some(0)
    /\ store # {}
    /\ PathId(resp) \notin Ids(store)

(* C9 as stated: every row has price > 0, and a create or an update that    *)
(* supplies a price that is not positive is answered 500 and leaves the     *)
(* table as it was.                                                         *)
C9_NonPositivePriceIs500 ==
    [][/\ \A r \in store' : r.Price > 0
       /\ (\/ /\ resp'.op = "create"
              /\ resp'.bound
              /\ resp'.req.Price <= 0
           \/ /\ resp'.op = "update"
              /\ resp'.bound
              /\ ~IsNil(resp'.req.Price)
              /\ Val(resp'.req.Price) <= 0)
          => /\ resp'.status = StatusInternalServerError
             /\ store' = store
      ]_vars

(* C9 as amended: every row has price > 0, and a create, or an update of an *)
(* existing row, that supplies a price that is not positive is answered 500 *)
(* and leaves the table as it was.                                          *)
C9_NonPositivePriceOnExistingIs500 ==
    [][/\ \A r \in store' : r.Price > 0
       /\ (\/ /\ resp'.op = "create"
              /\ resp'.bound
              /\ resp'.req.Price <= 0
           \/ /\ resp'.op = "update"
              /\ resp'.bound
              /\ PathId(resp') \in Ids(store)
              /\ ~IsNil(resp'.req.Price)
              /\ Val(resp'.req.Price) <= 0)
          => /\ resp'.status = StatusInternalServerError
             /\ store' = store
      ]_vars

(* the CHECK of the table refuses the update of a row *)
C9_Witness ==
    /\ resp.op = "update"
    /\ resp.status = StatusInternalServerError
    /\ resp.err = ErrConstraint
    /\ resp.req.Price = Some(0)
    /\ PathId(resp) \in Ids(store)

(* row r satisfies the userId and serviceName fields of the filter *)
C10Match(r, filter) ==
    /\ IsNil(filter.UserID) \/ r.UserID = Val(filter.UserID)
    /\ IsNil(filter.ServiceName) \/ ContainsFold(r.ServiceName, Val(filter.ServiceName))

(* C10: the list holds exactly the rows that satisfy every field given      *)
(* (userId equal, serviceName contained without regard to case), each once, *)
(* createdAt descending, and the table is as it was.                        *)
C10_ListIsFilteredAndOrdered ==
    [][(resp'.op = "list" /\ resp'.bound)
       => LET subs == resp'.body
          IN  /\ resp'.status = StatusOK
              /\ {subs[i] : i \in 1..Len(subs)} = {r \in store : C10Match(r, resp'.req)}
              /\ \A i, j \in 1..Len(subs) : i # j => subs[i] # subs[j]
              /\ \A i, j \in 1..Len(subs) : i < j => subs[i].CreatedAt >= subs[j].CreatedAt
              /\ store' = store
      ]_vars

(* C11: in SpecConc, a call whose existence check found the row and whose   *)
(* UPDATE or DELETE statement runs after the row was deleted by the other   *)
(* connection is answered 200, not 404, and the statement leaves the table  *)
(* exactly as it was: the id is not back, no other row is changed.          *)
C11_StaleWriteIsNoOp ==
    [][\A c \in Conns :
          (/\ calls[c].pc = "checked"
           /\ calls'[c].pc = "done"
           /\ calls'[c].exec
           /\ calls[c].id \notin Ids(store))
          => /\ calls'[c].status = StatusOK
             /\ calls'[c].err = NoErr
             /\ calls[c].id \notin Ids(store')
             /\ store' = store
      ]_vars

(* an update and a delete of the same id both passed the check; the delete  *)
(* ran first, the update after it, and another row is in the table          *)
C11_Witness ==
    \E c, d \in Conns :
        /\ calls[c].pc = "done" /\ calls[c].op = "update"
        /\ calls[c].raced /\ calls[c].exec
        /\ calls[c].status = StatusOK
        /\ calls[d].pc = "done" /\ calls[d].op = "delete"
        /\ calls[d].status = StatusOK
        /\ calls[d].id = calls[c].id
        /\ calls[c].id \notin Ids(store)
        /\ store # {}

(* the fields an update request supplies *)
SuppliedFields(req) ==
    {f \in {"ServiceName", "Price", "StartDate", "EndDate"} : ~IsNil(req[f])}

(* row r has, in every field req supplies, the value req supplies *)
HoldsSupplied(r, req) ==
    /\ IsNil(req.ServiceName) \/ r.ServiceName = Val(req.ServiceName)
    /\ IsNil(req.Price) \/ r.Price = Val(req.Price)
    /\ IsNil(req.StartDate) \/ r.StartDate = MonthOf(Val(req.StartDate))
    /\ IsNil(req.EndDate)
         \/ r.EndDate = IF Val(req.EndDate) = Empty THEN Nil
                        ELSE Some(MonthOf(Val(req.EndDate)))

(* C12: in SpecConc, when connection d's valid update of a row was the last *)
(* statement to write it and connection c's valid update of the same row,   *)
(* supplying none of the fields d supplied, then writes, whether c's        *)
(* existence check ran before or after d's write, c is answered 200 and the *)
(* row holds the values of c in c's fields and the values of d in d's.      *)
C12_DisjointUpdatesBothTakeEffect ==
    [][\A c, d \in Conns :
          (/\ c # d
           /\ calls[c].pc = "checked" /\ calls[c].op = "update"
           /\ calls'[c].pc = "done"
           /\ calls[d].pc = "done" /\ calls[d].op = "update"
           /\ calls[d].status = StatusOK /\ calls[d].exec
           /\ calls[d].id = calls[c].id
           /\ \E r \in store : r.ID = calls[c].id /\ r.UpdatedAt = calls[d].wroteAt
           /\ SuppliedFields(calls[c].req) # {}
           /\ SuppliedFields(calls[d].req) # {}
           /\ SuppliedFields(calls[c].req) \cap SuppliedFields(calls[d].req) = {}
           /\ UpdateDatesValid(calls[c].req)
           /\ UpdatePriceValid(calls[c].req))
          => /\ calls'[c].status = StatusOK
             /\ calls[c].id \in Ids(store')
             /\ HoldsSupplied(RowOf(store', calls[c].id), calls[c].req)
             /\ HoldsSupplied(RowOf(store', calls[c].id), calls[d].req)
      ]_vars

(* both updates passed the check before either wrote; d wrote the dates, c  *)
(* then wrote name and price, and the row created from CreateA has all four *)
C12_Witness ==
    \E c, d \in Conns :
        /\ c # d
        /\ calls[c].pc = "done" /\ calls[c].op = "update"
        /\ calls[c].status = StatusOK /\ calls[c].raced
        /\ calls[d].pc = "done" /\ calls[d].op = "update"
        /\ calls[d].status = StatusOK
        /\ calls[d].id = calls[c].id
        /\ calls[d].wroteAt < calls[c].wroteAt
        /\ SuppliedFields(calls[c].req) = {"ServiceName", "Price"}
        /\ SuppliedFields(calls[d].req) = {"StartDate", "EndDate"}
        /\ \E r \in store :
             /\ r.ID = calls[c].id
             /\ r.UserID = CreateA.UserID
             /\ r.UpdatedAt = calls[c].wroteAt
             /\ HoldsSupplied(r, calls[c].req)
             /\ HoldsSupplied(r, calls[d].req)

============================================================================
